---- MODULE Spec2Model ----
(***************************************************************************)
(* HelpLink API: the messaging subsystem (models/chat_model.py behind      *)
(* routes/chat.py) as a state machine over the relational store.           *)
(*                                                                         *)
(* Every request runs on a connection of its own (app.py get_db_connection *)
(* opens one per request, autocommit off), so a request's writes become    *)
(* visible to the other requests at its connection.commit() and not        *)
(* before.  The variables chats, chat_participants, messages,              *)
(* message_status and message_media are the COMMITTED rows; a request's    *)
(* uncommitted rows live in its req record until the commit step.          *)
(* Reads are consistent reads of the committed rows; the first read of a   *)
(* request fixes what its later reads on the same transaction see.         *)
(* chat_participants carries the unique (chat_id, user_id) key that        *)
(* add_participant's IntegrityError branch handles.                        *)
(***************************************************************************)
EXTENDS Integers, FiniteSets, Sequences, TLC

\* ---------------------------------------------------------------- bounds
MaxChats == 2        \* chat ids handed out (AUTO_INCREMENT is capped here)
MaxMessages == 1     \* message ids handed out
MaxTime == 2         \* CURRENT_TIMESTAMP runs over 1..MaxTime
MaxOtps == 2         \* OTP rows issued in a run

Users == {1, 2, 3}   \* authenticated user ids
Procs == {"w1", "w2"}  \* request workers, one connection each
\* token_required resolves the request's user; each worker serves the requests
\* of one signed-in user, user 3 signs in nowhere and is only named in requests.
CurrentUser(p) == IF p = "w1" THEN 1 ELSE 2

NULL == 0            \* SQL NULL / Python None for ids and timestamps

Statuses == {"sent", "delivered", "seen"}

VARIABLES
    chats,              \* chat id -> [type, last_message_id, created_at]
    chat_participants,  \* set of <<chat_id, user_id>>
    messages,           \* message id -> [chat_id, sender_id, content, message_type, created_at]
    message_status,     \* <<message_id, user_id>> -> [status, seen_at]
    message_media,      \* set of message ids that own a media row
    nextChatId,         \* AUTO_INCREMENT of chats
    nextMessageId,      \* AUTO_INCREMENT of messages
    now,                \* CURRENT_TIMESTAMP
    pc,                 \* worker -> position in its request handler
    req,                \* worker -> the request it handles and its transaction
    resp,               \* worker -> the response of its finished request
    password_hash,      \* user id -> users.password_hash
    user_otps           \* OTP id -> [user_id, otp_code, type, validity, is_used, expires_at]

vars == <<chats, chat_participants, messages, message_status, message_media,
          nextChatId, nextMessageId, now, pc, req, resp, password_hash, user_otps>>

\* The tables of the auth blueprint.
auth == <<password_hash, user_otps>>

db == <<chats, chat_participants, messages, message_status, message_media>>

\* ------------------------------------------------------------ relational reads
Participants(c) == {u \in Users : <<c, u>> \in chat_participants}

MessagesOf(c) == {m \in DOMAIN messages : messages[m].chat_id = c}

StatusUsers(m) == {u \in Users : <<m, u>> \in DOMAIN message_status}

None == [id |-> NULL]

NoReq == [op |-> "none", user |-> NULL, chat |-> NULL, others |-> {},
          message_type |-> "none", content |-> "", media |-> "none",
          message_id |-> NULL, created_at |-> NULL, seen |-> {},
          email |-> "", otp_code |-> "", password |-> "", otp_id |-> NULL,
          participant_ids |-> {}, invalidated |-> {}]

NoResp == [code |-> 0]

\* FindPrivateChats with the second count taken over the two users as an
\* ordered pair (user1_id first): a chat the other user created is not found.
FindPrivateChatsOrdered(user1_id, user2_id) ==
    {c \in DOMAIN chats :
        /\ chats[c].type = "private"
        /\ Cardinality({u \in Participants(c) : u \in {user1_id, user2_id}}) = 2
        /\ Cardinality(Participants(c)) = 2
        /\ user1_id < user2_id}

\* FindPrivateChats without the second count, "COUNT(*) ... = 2": any private
\* chat that holds the two users.
FindPrivateChatsContaining(user1_id, user2_id) ==
    {c \in DOMAIN chats :
        /\ chats[c].type = "private"
        /\ Cardinality({u \in Participants(c) : u \in {user1_id, user2_id}}) = 2}

\* get_or_create_private_chat, the SELECT: private chats whose participants are
\* exactly the two users.
FindPrivateChats(user1_id, user2_id) ==
    {c \in DOMAIN chats :
        /\ chats[c].type = "private"
        /\ Cardinality({u \in Participants(c) : u \in {user1_id, user2_id}}) = 2
        /\ Cardinality(Participants(c)) = 2}

LastMessageContent(c) ==
    IF chats[c].last_message_id \in DOMAIN messages
    THEN messages[chats[c].last_message_id].content
    ELSE "null"

\* get_chat_by_id without its participancy SELECT.
get_chat_by_id_unchecked(chat_id, user_id) ==
    IF chat_id \notin DOMAIN chats THEN None
    ELSE [id |-> chat_id,
          type |-> chats[chat_id].type,
          last_message_id |-> chats[chat_id].last_message_id,
          last_message_content |-> LastMessageContent(chat_id),
          participants |-> Participants(chat_id)]

\* get_chat_by_id: None unless user_id is a participant of an existing chat.
get_chat_by_id(chat_id, user_id) ==
    IF <<chat_id, user_id>> \notin chat_participants THEN None
    ELSE IF chat_id \notin DOMAIN chats THEN None
    ELSE [id |-> chat_id,
          type |-> chats[chat_id].type,
          last_message_id |-> chats[chat_id].last_message_id,
          last_message_content |-> LastMessageContent(chat_id),
          participants |-> Participants(chat_id)]

\* ------------------------------------------------------------ users, OTPs
\* users.email of the registered users.
Email == (1 :> "a@x.com" @@ 2 :> "b@x.com" @@ 3 :> "c@x.com")

\* The emails requests carry: of a user as stored, of a user in another
\* spelling, of nobody.
EmailInputs == {" A@X.com", "b@x.com", "nobody@x.com"}

\* email.lower().strip()
Normalize(email) == IF email = " A@X.com" THEN "a@x.com" ELSE email

\* get_user_by_email: the id of the user row, NULL for no row.
get_user_by_email(email) ==
    IF \E u \in Users : Email[u] = email
    THEN CHOOSE u \in Users : Email[u] = email
    ELSE NULL

InitialPassword == "oldpass1"
NewPasswords == {"newpass1", "short"}
Passwords == {"oldpass1", "newpass1"}

\* bcrypt: the hash holds the password under a salt; checkpw recomputes it.
hash_password(password) == <<"bcrypt", Len(password), password>>
verify_password(password, hashed_password) ==
    hashed_password[1] = "bcrypt" /\ hashed_password[3] = password

\* generate_otp: six random digits.
Codes == {"111111", "222222"}

\* create_otp(..., validity_minutes=3) as forgot_password calls it; a tick of
\* the clock is a minute for these routes.
validity_minutes == 3

\* ------------------------------------------------------------------ Init
Init ==
    /\ chats = <<>>
    /\ chat_participants = {}
    /\ messages = <<>>
    /\ message_status = <<>>
    /\ message_media = {}
    /\ nextChatId = 1
    /\ nextMessageId = 1
    /\ now = 1
    /\ pc = [p \in Procs |-> "idle"]
    /\ req = [p \in Procs |-> NoReq]
    /\ resp = [p \in Procs |-> NoResp]
    /\ password_hash = [u \in Users |-> hash_password(InitialPassword)]
    /\ user_otps = <<>>

\* The response leaves the worker; the connection closes (teardown close_db).
Finish(p) ==
    /\ pc[p] = "done"
    /\ pc' = [pc EXCEPT ![p] = "idle"]
    /\ req' = [req EXCEPT ![p] = NoReq]
    /\ resp' = [resp EXCEPT ![p] = NoResp]
    /\ UNCHANGED <<db, nextChatId, nextMessageId, now>>
    /\ UNCHANGED auth

Tick ==
    /\ now < MaxTime
    /\ now' = now + 1
    /\ UNCHANGED <<db, nextChatId, nextMessageId, pc, req, resp>>
    /\ UNCHANGED auth

Reply(p, r) ==
    /\ pc' = [pc EXCEPT ![p] = "done"]
    /\ resp' = [resp EXCEPT ![p] = r]

\* INSERT INTO chat_participants raises pymysql.IntegrityError when the pair
\* is already a row: the unique (chat_id, user_id) key.
IntegrityError(rows, chat_id, user_id) == <<chat_id, user_id>> \in rows

\* add_participant with the IntegrityError swallowed: the duplicate INSERT is
\* rolled back and True is returned.
add_participant_duplicate_ok(rows, chat_id, user_id) ==
    [ok |-> TRUE, rows |-> rows \cup {<<chat_id, user_id>>}]

\* ChatModel.add_participant: the INSERT and its commit, True; False, after a
\* rollback, when the INSERT raises IntegrityError.
add_participant(rows, chat_id, user_id) ==
    IF IntegrityError(rows, chat_id, user_id)
    THEN [ok |-> FALSE, rows |-> rows]
    ELSE [ok |-> TRUE, rows |-> rows \cup {<<chat_id, user_id>>}]

\* ------------------------------------------- POST /api/chats  (type private)
\* create_chat -> get_or_create_private_chat: the SELECT.  A match is returned
\* at once (LIMIT 1 without ORDER BY: any of the matches).
PrivateSelect(p, u, o) ==
    /\ pc[p] = "idle"
    /\ LET found == FindPrivateChats(u, o) IN
       IF found # {}
       THEN \E c \in found :
              /\ Reply(p, [code |-> 201, chat |-> get_chat_by_id(c, u)])
              /\ req' = [req EXCEPT ![p] = [NoReq EXCEPT !.op = "private", !.user = u,
                                                          !.others = {o}, !.chat = c]]
       ELSE /\ pc' = [pc EXCEPT ![p] = "private_insert"]
            /\ req' = [req EXCEPT ![p] = [NoReq EXCEPT !.op = "private", !.user = u,
                                                        !.others = {o}]]
            /\ resp' = resp
    /\ UNCHANGED <<db, nextChatId, nextMessageId, now>>
    /\ UNCHANGED auth

\* get_or_create_private_chat, the INSERTs and the commit, then the route's
\* get_chat_by_id on the new chat.  The second participant INSERT violates the
\* unique (chat_id, user_id) key when both ids are the same user: the except
\* branch rolls the chat row back and the route answers 500.
PrivateInsert(p) ==
    /\ pc[p] = "private_insert"
    /\ nextChatId <= MaxChats
    /\ LET u == req[p].user
           o == CHOOSE x \in req[p].others : TRUE
           c == nextChatId
       IN /\ nextChatId' = nextChatId + 1
          /\ IF IntegrityError({<<c, u>>}, c, o)
             THEN /\ UNCHANGED db
                  /\ req' = req
                  /\ Reply(p, [code |-> 500, error |-> "Failed to create chat"])
             ELSE /\ chats' = c :> [type |-> "private", last_message_id |-> NULL,
                                      created_at |-> now] @@ chats
                  /\ chat_participants' = chat_participants \cup {<<c, u>>, <<c, o>>}
                  /\ UNCHANGED <<messages, message_status, message_media>>
                  /\ req' = [req EXCEPT ![p].chat = c]
                  /\ Reply(p, [code |-> 201,
                               chat |-> [id |-> c, type |-> "private",
                                         last_message_id |-> NULL,
                                         last_message_content |-> "null",
                                         participants |-> {u, o}]])
    /\ UNCHANGED <<nextMessageId, now>>
    /\ UNCHANGED auth

\* --------------------------------------------- POST /api/chats  (type group)
\* create_chat(conn, 'group') commits the chat row on its own, with no
\* participant yet.
GroupCreate(p, u, others) ==
    /\ pc[p] = "idle"
    /\ nextChatId <= MaxChats
    /\ nextChatId' = nextChatId + 1
    /\ chats' = nextChatId :> [type |-> "group", last_message_id |-> NULL,
                                created_at |-> now] @@ chats
    /\ pc' = [pc EXCEPT ![p] = "group_add"]
    /\ req' = [req EXCEPT ![p] = [NoReq EXCEPT !.op = "group", !.user = u,
                                                !.chat = nextChatId,
                                                !.participant_ids = others,
                                                !.others = {u} \cup others]]
    /\ UNCHANGED <<chat_participants, messages, message_status, message_media,
                   nextMessageId, now, resp>>
    /\ UNCHANGED auth

\* create_chat's except branch: the INSERT raises, the rollback leaves no row,
\* None is returned and the route answers 500.
GroupCreateFails(p, u, others) ==
    /\ pc[p] = "idle"
    /\ req' = [req EXCEPT ![p] = [NoReq EXCEPT !.op = "group", !.user = u,
                                                !.participant_ids = others]]
    /\ Reply(p, [code |-> 500, error |-> "Failed to create chat"])
    /\ UNCHANGED <<db, nextChatId, nextMessageId, now, auth>>

\* The next participant the route adds: the requester first, then the
\* requested ids.
NextToAdd(p) ==
    IF req[p].user \in req[p].others THEN req[p].user
    ELSE CHOOSE x \in req[p].others : \A y \in req[p].others : x <= y

\* add_participant: one INSERT and its commit; a duplicate pair raises
\* IntegrityError and returns False, which this route ignores.
GroupAdd(p) ==
    /\ pc[p] = "group_add"
    /\ req[p].others # {}
    /\ chat_participants' = add_participant(chat_participants, req[p].chat, NextToAdd(p)).rows
    /\ req' = [req EXCEPT ![p].others = @ \ {NextToAdd(p)}]
    /\ UNCHANGED <<chats, messages, message_status, message_media,
                   nextChatId, nextMessageId, now, pc, resp>>
    /\ UNCHANGED auth

\* add_participant's "except Exception" branch: the INSERT raises, is rolled
\* back, False is returned; the route does not look at it and goes on.
GroupAddFails(p) ==
    /\ pc[p] = "group_add"
    /\ req[p].others # {}
    /\ req' = [req EXCEPT ![p].others = @ \ {NextToAdd(p)}]
    /\ UNCHANGED <<db, nextChatId, nextMessageId, now, pc, resp, auth>>

\* get_chat_by_id for the response.
GroupReply(p) ==
    /\ pc[p] = "group_add"
    /\ req[p].others = {}
    /\ Reply(p, [code |-> 201, chat |-> get_chat_by_id(req[p].chat, req[p].user)])
    /\ UNCHANGED <<db, nextChatId, nextMessageId, now, req>>
    /\ UNCHANGED auth

\* ------------------------------------ POST /api/chats/<chat_id>/participants
\* add_participant without the route's check of the chat type.
AddParticipantAnyType(chat) == TRUE

\* The route lets a participant add a member to a group chat only.
AddParticipantAllowed(chat) == chat.type = "group"

AddParticipant(p, u, c, user_id) ==
    /\ pc[p] = "idle"
    /\ req' = req
    /\ LET chat == get_chat_by_id(c, u) IN
       IF chat = None
       THEN /\ Reply(p, [code |-> 404, error |-> "Chat not found or unauthorized"])
            /\ UNCHANGED chat_participants
       ELSE IF ~AddParticipantAllowed(chat)
       THEN /\ Reply(p, [code |-> 400, error |-> "Can only add participants to group chats"])
            /\ UNCHANGED chat_participants
       ELSE LET added == add_participant(chat_participants, c, user_id) IN
            /\ chat_participants' = added.rows
            /\ IF added.ok
               THEN Reply(p, [code |-> 200, message |-> "Participant added successfully"])
               ELSE Reply(p, [code |-> 400, error |-> "Failed to add participant or already member"])
    /\ UNCHANGED <<chats, messages, message_status, message_media,
                   nextChatId, nextMessageId, now>>
    /\ UNCHANGED auth

\* -------------------------------------- POST /api/chats/<chat_id>/messages
\* The INSERT on a connection opened with autocommit on: the row is committed
\* by the statement itself.
MessagesAfterInsertAutocommit(rows, message_id, row) == message_id :> row @@ rows

\* create_message's INSERT runs on a connection with autocommit off: the row
\* stays in the request's transaction and the committed rows are as before.
MessagesAfterInsert(rows, message_id, row) == rows

\* The fan-out SELECT without "AND user_id != sender".
RecipientsWithSender(participants, sender_id) == participants

\* create_message's fan-out SELECT: the chat's participants except the sender.
Recipients(participants, sender_id) == {u \in participants : u # sender_id}

MessageRow(p) ==
    [chat_id |-> req[p].chat, sender_id |-> req[p].user, content |-> req[p].content,
     message_type |-> req[p].message_type, created_at |-> req[p].created_at]

\* send_message without the check of the content of a text message.
ContentMissingIgnored(message_type, content) == FALSE

\* send_message: "if message_type == 'text' and not content".
ContentMissing(message_type, content) == message_type = "text" /\ content = ""

\* send_message up to create_message: the participancy check (get_chat_by_id,
\* the transaction's first read) and the validation of type and content.
SendStart(p, u, c, message_type, content, media) ==
    /\ pc[p] = "idle"
    /\ LET r == [NoReq EXCEPT !.op = "send", !.user = u, !.chat = c,
                              !.message_type = message_type, !.content = content,
                              !.media = media]
       IN
       IF get_chat_by_id(c, u) = None
       THEN /\ Reply(p, [code |-> 404, error |-> "Chat not found or unauthorized"])
            /\ req' = req
       ELSE IF ContentMissing(message_type, content)
       THEN /\ Reply(p, [code |-> 400, error |-> "Content is required for text messages"])
            /\ req' = req
       ELSE /\ pc' = [pc EXCEPT ![p] = "send_insert"]
            /\ req' = [req EXCEPT ![p] = [r EXCEPT !.seen = Participants(c)]]
            /\ resp' = resp
    /\ UNCHANGED <<db, nextChatId, nextMessageId, now>>
    /\ UNCHANGED auth

\* create_message: INSERT INTO messages; lastrowid is the new message id.
SendInsert(p) ==
    /\ pc[p] = "send_insert"
    /\ nextMessageId' = nextMessageId + 1
    /\ req' = [req EXCEPT ![p].message_id = nextMessageId, ![p].created_at = now]
    /\ messages' = MessagesAfterInsert(messages, nextMessageId,
                      [MessageRow(p) EXCEPT !.created_at = now])
    /\ pc' = [pc EXCEPT ![p] = "send_commit"]
    /\ UNCHANGED <<chats, chat_participants, message_status, message_media,
                   nextChatId, now, resp>>
    /\ UNCHANGED auth

\* The pointer UPDATE with "AND last_message_id IS NULL": only the first
\* message of a chat is recorded.
LastMessageIdIfUnset(old, message_id) == IF old = NULL THEN message_id ELSE old

\* create_message: "UPDATE chats SET last_message_id = %s WHERE id = %s".
LastMessageId(old, message_id) == message_id

\* create_message: UPDATE chats SET last_message_id, the status fan-out and
\* connection.commit(): message, pointer and status rows become visible at once.
SendCommit(p) ==
    /\ pc[p] = "send_commit"
    /\ LET m == req[p].message_id
           to == Recipients(req[p].seen, req[p].user)
       IN /\ messages' = m :> MessageRow(p) @@ messages
          /\ chats' = [chats EXCEPT ![req[p].chat].last_message_id = LastMessageId(@, m)]
          /\ message_status' =
                [k \in DOMAIN message_status \cup {<<m, u>> : u \in to} |->
                    IF k \in DOMAIN message_status THEN message_status[k]
                    ELSE [status |-> "sent", seen_at |-> NULL]]
    /\ pc' = [pc EXCEPT ![p] =
                IF req[p].message_type = "text" THEN "send_refetch" ELSE "send_media"]
    /\ UNCHANGED <<chat_participants, message_media, nextChatId, nextMessageId,
                   now, req, resp>>
    /\ UNCHANGED auth

\* create_message's except branch: a statement after the INSERT raises,
\* connection.rollback() drops the transaction, the route answers 500.
SendRollback(p) ==
    /\ pc[p] = "send_commit"
    /\ Reply(p, [code |-> 500, error |-> "Failed to send message"])
    /\ UNCHANGED <<db, nextChatId, nextMessageId, now, req>>
    /\ UNCHANGED auth

\* get_chat_messages(conn, chat_id, user, limit=1, offset=0) as the route's
\* re-fetch uses it: the first row of ORDER BY created_at DESC, any of the
\* rows that share the latest timestamp.
LatestMessages(c) ==
    {m \in MessagesOf(c) : \A n \in MessagesOf(c) : messages[n].created_at <= messages[m].created_at}

Refetched(m) ==
    [code |-> 201, message |-> "Message sent successfully",
     data |-> [id |-> m, sender_id |-> messages[m].sender_id,
               content |-> messages[m].content]]

\* send_message for photo/video after create_message has committed: without a
\* media field the route answers 400; otherwise each file is uploaded and
\* add_message_media inserts and commits its row.  ok = FALSE is the upload or
\* the INSERT failing (add_message_media returns None, the route goes on).
SendMedia(p, ok) ==
    /\ pc[p] = "send_media"
    /\ IF req[p].media = "none"
       THEN /\ Reply(p, [code |-> 400, error |-> "Media files required"])
            /\ UNCHANGED message_media
       ELSE /\ message_media' = IF ok THEN message_media \cup {req[p].message_id}
                                 ELSE message_media
            /\ \E m \in LatestMessages(req[p].chat) : Reply(p, Refetched(m))
    /\ UNCHANGED <<chats, chat_participants, messages, message_status,
                   nextChatId, nextMessageId, now, req>>
    /\ UNCHANGED auth

SendRefetch(p) ==
    /\ pc[p] = "send_refetch"
    /\ \E m \in LatestMessages(req[p].chat) : Reply(p, Refetched(m))
    /\ UNCHANGED <<db, nextChatId, nextMessageId, now, req>>
    /\ UNCHANGED auth

\* --------------------------------- PUT /api/chats/<chat_id>/messages/seen
\* The UPDATE without "AND ms.status != 'seen'".
mark_all_chat_messages_as_seen(rows, chat_id, user_id, t) ==
    [k \in DOMAIN rows |->
        IF messages[k[1]].chat_id = chat_id /\ k[2] = user_id
        THEN [status |-> "seen", seen_at |-> t]
        ELSE rows[k]]

\* The UPDATE with "AND ms.status = 'sent'": delivered rows are left out.
mark_sent_chat_messages_as_seen(rows, chat_id, user_id, t) ==
    [k \in DOMAIN rows |->
        IF /\ messages[k[1]].chat_id = chat_id
           /\ k[2] = user_id
           /\ rows[k].status = "sent"
        THEN [status |-> "seen", seen_at |-> t]
        ELSE rows[k]]

\* The UPDATE without "m.chat_id = %s": the user's rows of every chat.
mark_user_messages_as_seen(rows, chat_id, user_id, t) ==
    [k \in DOMAIN rows |->
        IF k[2] = user_id /\ rows[k].status # "seen"
        THEN [status |-> "seen", seen_at |-> t]
        ELSE rows[k]]

\* mark_chat_messages_as_seen: UPDATE message_status JOIN messages SET seen,
\* seen_at = CURRENT_TIMESTAMP WHERE chat, user and status != 'seen'.
mark_chat_messages_as_seen(rows, chat_id, user_id, t) ==
    [k \in DOMAIN rows |->
        IF /\ messages[k[1]].chat_id = chat_id
           /\ k[2] = user_id
           /\ rows[k].status # "seen"
        THEN [status |-> "seen", seen_at |-> t]
        ELSE rows[k]]

MarkSeen(p, u, c) ==
    /\ pc[p] = "idle"
    /\ IF get_chat_by_id(c, u) = None
       THEN /\ Reply(p, [code |-> 404, error |-> "Chat not found or unauthorized"])
            /\ req' = req
            /\ UNCHANGED message_status
       ELSE /\ message_status' = mark_chat_messages_as_seen(message_status, c, u, now)
            /\ req' = [req EXCEPT ![p] = [NoReq EXCEPT !.op = "mark_seen", !.user = u,
                                                        !.chat = c, !.created_at = now]]
            /\ Reply(p, [code |-> 200, message |-> "Messages marked as seen"])
    /\ UNCHANGED <<chats, chat_participants, messages, message_media,
                   nextChatId, nextMessageId, now>>
    /\ UNCHANGED auth

SendKinds == {<<"text", "hi", "none">>, <<"text", "", "none">>,
              <<"photo", "", "file">>, <<"photo", "", "none">>}

\* ------------------------------------------------ GET /api/chats/<chat_id>
GetChat(p, u, c) ==
    /\ pc[p] = "idle"
    /\ req' = [req EXCEPT ![p] = [NoReq EXCEPT !.op = "get_chat", !.user = u, !.chat = c]]
    /\ LET chat == get_chat_by_id(c, u) IN
       IF chat = None
       THEN Reply(p, [code |-> 404, error |-> "Chat not found or unauthorized"])
       ELSE Reply(p, [code |-> 200, chat |-> chat])
    /\ UNCHANGED <<db, nextChatId, nextMessageId, now>>
    /\ UNCHANGED auth

\* --------------------------------------- GET /api/chats/<chat_id>/messages
\* ORDER BY m.created_at ASC.
AscendingOrders(c) ==
    {s \in [1..Cardinality(MessagesOf(c)) -> MessagesOf(c)] :
        /\ \A i, j \in DOMAIN s : i # j => s[i] # s[j]
        /\ \A i, j \in DOMAIN s : i < j => messages[s[i]].created_at <= messages[s[j]].created_at}

\* ORDER BY m.created_at DESC: every order of the chat's messages that is
\* descending in created_at (rows of one timestamp come in any order).
DescendingOrders(c) ==
    {s \in [1..Cardinality(MessagesOf(c)) -> MessagesOf(c)] :
        /\ \A i, j \in DOMAIN s : i # j => s[i] # s[j]
        /\ \A i, j \in DOMAIN s : i < j => messages[s[i]].created_at >= messages[s[j]].created_at}

\* LIMIT limit OFFSET offset
Page(s, limit, offset) ==
    [i \in 1..(IF Len(s) - offset < 0 THEN 0
               ELSE IF Len(s) - offset < limit THEN Len(s) - offset ELSE limit)
        |-> s[i + offset]]

\* The row of a message with the status SELECT left out: always the default.
MessageViewDefaultStatus(m, user_id) ==
    [id |-> m, sender_id |-> messages[m].sender_id, content |-> messages[m].content,
     media |-> IF m \in message_media THEN 1 ELSE 0,
     status |-> "seen", seen_at |-> NULL]

\* The row get_chat_messages builds for one message: its media and the
\* requesting user's own status row, 'seen' with no seen_at when there is none.
MessageView(m, user_id) ==
    [id |-> m, sender_id |-> messages[m].sender_id, content |-> messages[m].content,
     media |-> IF m \in message_media THEN 1 ELSE 0,
     status |-> IF <<m, user_id>> \in DOMAIN message_status
                THEN message_status[<<m, user_id>>].status ELSE "seen",
     seen_at |-> IF <<m, user_id>> \in DOMAIN message_status
                 THEN message_status[<<m, user_id>>].seen_at ELSE NULL]

\* get_chat_messages without its participancy SELECT.
get_chat_messages_unchecked(chat_id, user_id, limit, offset) ==
    {[i \in DOMAIN Page(s, limit, offset) |-> MessageView(Page(s, limit, offset)[i], user_id)] :
        s \in DescendingOrders(chat_id)}

\* get_chat_messages: the empty list for a user who is no participant.
get_chat_messages(chat_id, user_id, limit, offset) ==
    IF <<chat_id, user_id>> \notin chat_participants THEN {<<>>}
    ELSE {[i \in DOMAIN Page(s, limit, offset) |-> MessageView(Page(s, limit, offset)[i], user_id)] :
            s \in DescendingOrders(chat_id)}

\* get_messages answers 404 only for None, which get_chat_messages never returns.
GetMessages(p, u, c, limit, offset) ==
    /\ pc[p] = "idle"
    /\ req' = [req EXCEPT ![p] = [NoReq EXCEPT !.op = "get_messages", !.user = u, !.chat = c]]
    /\ \E list \in get_chat_messages(c, u, limit, offset) :
          Reply(p, [code |-> 200, messages |-> list, count |-> Len(list)])
    /\ UNCHANGED <<db, nextChatId, nextMessageId, now>>
    /\ UNCHANGED auth

Pages == {<<50, 0>>, <<1, 0>>, <<1, 1>>}

\* ----------------------------------------------------------- GET /api/chats
\* get_user_chats: INNER JOIN chat_participants ... WHERE cp.user_id = user_id.
UserChats(user_id) == {c \in DOMAIN chats : <<c, user_id>> \in chat_participants}

\* The list ordered by the time of the last message (of creation when the
\* chat has none).
ChatOrderKeyLastActivity(c) ==
    IF chats[c].last_message_id \in DOMAIN messages
    THEN messages[chats[c].last_message_id].created_at + MaxTime
    ELSE chats[c].created_at

\* ORDER BY c.created_at DESC
ChatOrderKey(c) == chats[c].created_at

\* Every order of the user's chats that is descending in the key (rows of one
\* timestamp come in any order).
ChatOrders(user_id) ==
    {s \in [1..Cardinality(UserChats(user_id)) -> UserChats(user_id)] :
        /\ \A i, j \in DOMAIN s : i # j => s[i] # s[j]
        /\ \A i, j \in DOMAIN s : i < j => ChatOrderKey(s[i]) >= ChatOrderKey(s[j])}

\* The row of one chat: c.*, the summary of its last message (LEFT JOIN
\* messages) and its participants.
ChatView(c) ==
    [id |-> c, type |-> chats[c].type,
     last_message_id |-> chats[c].last_message_id,
     last_message_content |-> LastMessageContent(c),
     participants |-> Participants(c)]

get_user_chats(user_id, limit, offset) ==
    {[i \in DOMAIN Page(s, limit, offset) |-> ChatView(Page(s, limit, offset)[i])] :
        s \in ChatOrders(user_id)}

GetChats(p, u, limit, offset) ==
    /\ pc[p] = "idle"
    /\ req' = [req EXCEPT ![p] = [NoReq EXCEPT !.op = "get_chats", !.user = u]]
    /\ \E list \in get_user_chats(u, limit, offset) :
          Reply(p, [code |-> 200, chats |-> list, count |-> Len(list)])
    /\ UNCHANGED <<db, nextChatId, nextMessageId, now>>
    /\ UNCHANGED auth

\* ------------------------------------------------ ChatModel.update_message_status
\* No route calls it; it is an operation of the model layer.
update_message_status(rows, message_id, user_id, status, t) ==
    [k \in DOMAIN rows |->
        IF k = <<message_id, user_id>>
        THEN [status |-> status,
              seen_at |-> IF status = "seen" THEN t ELSE rows[k].seen_at]
        ELSE rows[k]]

UpdateMessageStatus(m, u, status) ==
    /\ m \in DOMAIN messages
    /\ message_status' = update_message_status(message_status, m, u, status, now)
    /\ UNCHANGED <<chats, chat_participants, messages, message_media,
                   nextChatId, nextMessageId, now, pc, req, resp>>
    /\ UNCHANGED auth

\* ------------------------------------------------------ AuthModel, OTP rows
\* create_otp's UPDATE: the ids of the rows its WHERE matches, the active
\* OTPs of the user and type.
InvalidatedByCreateOtp(rows, user_id, otp_type) ==
    {i \in DOMAIN rows :
        /\ rows[i].user_id = user_id
        /\ rows[i].type = otp_type
        /\ rows[i].validity = "active"}

\* create_otp without its invalidating UPDATE: the new row is appended and the
\* older rows stay as they are.
create_otp_keeping_active(rows, invalidated, user_id, otp_type, otp_code, t) ==
    Append(rows,
           [user_id |-> user_id, otp_code |-> otp_code, type |-> otp_type,
            validity |-> "active", is_used |-> 0,
            created_at |-> t, expires_at |-> t + validity_minutes])

\* create_otp at its commit: the rows its UPDATE matched are inactive, the new
\* row is inserted active and unused, expiring validity_minutes from now.
create_otp(rows, invalidated, user_id, otp_type, otp_code, t) ==
    Append([i \in DOMAIN rows |->
               IF i \in invalidated
               THEN [rows[i] EXCEPT !.validity = "inactive"]
               ELSE rows[i]],
           [user_id |-> user_id, otp_code |-> otp_code, type |-> otp_type,
            validity |-> "active", is_used |-> 0,
            created_at |-> t, expires_at |-> t + validity_minutes])

\* verify_otp's WHERE without "AND expires_at > NOW()".
OtpMatchesUnexpiring(row, user_id, otp_code, otp_type, t) ==
    /\ row.user_id = user_id
    /\ row.otp_code = otp_code
    /\ row.type = otp_type
    /\ row.validity = "active"
    /\ row.is_used = 0

\* verify_otp's WHERE.
OtpMatches(row, user_id, otp_code, otp_type, t) ==
    /\ row.user_id = user_id
    /\ row.otp_code = otp_code
    /\ row.type = otp_type
    /\ row.validity = "active"
    /\ row.is_used = 0
    /\ row.expires_at > t

\* verify_otp: ORDER BY created_at DESC LIMIT 1 over the matching rows; the
\* ids it can return, none for None.
verify_otp(rows, user_id, otp_code, otp_type, t) ==
    {i \in DOMAIN rows :
        /\ OtpMatches(rows[i], user_id, otp_code, otp_type, t)
        /\ \A j \in DOMAIN rows :
              OtpMatches(rows[j], user_id, otp_code, otp_type, t)
              => rows[j].created_at <= rows[i].created_at}

mark_otp_as_used(rows, otp_id) ==
    [i \in DOMAIN rows |->
        IF i = otp_id THEN [rows[i] EXCEPT !.is_used = 1, !.validity = "inactive"]
        ELSE rows[i]]

\* invalidate_user_otps(conn, user_id) with no type: every active OTP of the
\* user.
invalidate_user_otps(rows, user_id) ==
    [i \in DOMAIN rows |->
        IF rows[i].user_id = user_id /\ rows[i].validity = "active"
        THEN [rows[i] EXCEPT !.validity = "inactive"]
        ELSE rows[i]]

\* The clock of the auth routes: a minute passes.
Minute ==
    /\ now < MaxTime + validity_minutes
    /\ now' = now + 1
    /\ UNCHANGED <<db, nextChatId, nextMessageId, pc, req, resp, auth>>

\* ------------------------------------------- POST /api/auth/forgot-password
\* create_otp is one transaction of two statements.  Its UPDATE locks what it
\* scans (InnoDB at its default REPEATABLE READ: the matching rows and the gap
\* of the user's rows), and the locks are held until the commit or rollback.
\* A second create_otp for the user waits at its UPDATE while the active rows
\* it matches are locked by the first.
InvalidateBlocked(p, user_id, otp_type) ==
    \E q \in Procs \ {p} :
        /\ pc[q] = "otp_insert"
        /\ req[q].user = user_id
        /\ InvalidatedByCreateOtp(user_otps, user_id, otp_type) # {}

\* The INSERT waits while another create_otp for the user holds the gap.
InsertBlocked(p) ==
    \E q \in Procs \ {p} : pc[q] = "otp_insert" /\ req[q].user = req[p].user

\* The route up to and including create_otp's UPDATE: generate_otp, then the
\* invalidating UPDATE, whose effect is visible to others at the commit.
ForgotPassword(p, email, otp_code) ==
    /\ pc[p] = "idle"
    /\ LET user == get_user_by_email(Normalize(email)) IN
       IF user = NULL
       THEN /\ req' = [req EXCEPT ![p] = [NoReq EXCEPT !.op = "forgot", !.email = email]]
            /\ Reply(p, [code |-> 200,
                         message |-> "If the email exists, an OTP has been sent to it"])
       ELSE /\ Len(user_otps) < MaxOtps
            /\ ~InvalidateBlocked(p, user, "password_reset")
            /\ req' = [req EXCEPT ![p] = [NoReq EXCEPT !.op = "forgot", !.email = email,
                                                        !.user = user,
                                                        !.otp_code = otp_code,
                                                        !.invalidated =
                                                            InvalidatedByCreateOtp(
                                                                user_otps, user,
                                                                "password_reset")]]
            /\ pc' = [pc EXCEPT ![p] = "otp_insert"]
            /\ resp' = resp
    /\ UNCHANGED <<db, nextChatId, nextMessageId, now, auth>>

\* create_otp's INSERT and commit, and the route's response.
CreateOtpInsert(p) ==
    /\ pc[p] = "otp_insert"
    /\ ~InsertBlocked(p)
    /\ Len(user_otps) < MaxOtps
    /\ user_otps' = create_otp(user_otps, req[p].invalidated, req[p].user,
                               "password_reset", req[p].otp_code, now)
    /\ Reply(p, [code |-> 200,
                 message |-> "If the email exists, an OTP has been sent to it",
                 email |-> Normalize(req[p].email)])
    /\ UNCHANGED <<db, nextChatId, nextMessageId, now, req, password_hash>>

\* Two create_otp for one user each wait for the other's gap lock at their
\* INSERT: the deadlock's victim gets the error, create_otp rolls back and
\* returns None, and the route answers 500.
CreateOtpFails(p) ==
    /\ pc[p] = "otp_insert"
    /\ InsertBlocked(p)
    /\ Reply(p, [code |-> 500, error |-> "Failed to generate OTP"])
    /\ UNCHANGED <<db, nextChatId, nextMessageId, now, req, auth>>

\* ------------------------------------------------ POST /api/auth/verify-otp
\* The route with mark_otp_as_used called on the verified row.
OtpsAfterVerifyConsumed(rows, otp_id) == mark_otp_as_used(rows, otp_id)

\* The route only reads: the verified row stays as it is.
OtpsAfterVerify(rows, otp_id) == rows

VerifyOtp(p, email, otp_code) ==
    /\ pc[p] = "idle"
    /\ LET user == get_user_by_email(Normalize(email))
           found == IF user = NULL THEN {}
                    ELSE verify_otp(user_otps, user, otp_code, "password_reset", now)
       IN
       IF user = NULL
       THEN /\ Reply(p, [code |-> 401, error |-> "Invalid OTP code"])
            /\ UNCHANGED <<user_otps, req>>
       ELSE IF found = {}
       THEN /\ Reply(p, [code |-> 401, error |-> "Invalid or expired OTP code"])
            /\ UNCHANGED <<user_otps, req>>
       ELSE /\ \E i \in found :
                  /\ user_otps' = OtpsAfterVerify(user_otps, i)
                  /\ req' = [req EXCEPT ![p] = [NoReq EXCEPT !.op = "verify_otp",
                                                 !.user = user, !.otp_id = i]]
            /\ Reply(p, [code |-> 200, message |-> "OTP verified successfully",
                         email |-> Normalize(email), otp_valid |-> TRUE])
    /\ UNCHANGED <<db, nextChatId, nextMessageId, now, password_hash>>

\* -------------------------------------------- POST /api/auth/reset-password
\* Up to verify_otp: the length check, the user row, the OTP row.
ResetStart(p, email, otp_code, new_password) ==
    /\ pc[p] = "idle"
    /\ LET user == get_user_by_email(Normalize(email))
           found == IF user = NULL THEN {}
                    ELSE verify_otp(user_otps, user, otp_code, "password_reset", now)
       IN
       IF Len(new_password) < 6
       THEN /\ Reply(p, [code |-> 400,
                         error |-> "New password must be at least 6 characters long"])
            /\ req' = req
       ELSE IF user = NULL
       THEN /\ Reply(p, [code |-> 401, error |-> "Invalid OTP code"])
            /\ req' = req
       ELSE IF found = {}
       THEN /\ Reply(p, [code |-> 401, error |-> "Invalid or expired OTP code"])
            /\ req' = [req EXCEPT ![p] = [NoReq EXCEPT !.op = "reset", !.user = user,
                                                        !.otp_code = otp_code]]
       ELSE /\ \E i \in found :
                  req' = [req EXCEPT ![p] = [NoReq EXCEPT !.op = "reset", !.user = user,
                                             !.otp_code = otp_code,
                                             !.password = new_password, !.otp_id = i]]
            /\ pc' = [pc EXCEPT ![p] = "reset_update"]
            /\ resp' = resp
    /\ UNCHANGED <<db, nextChatId, nextMessageId, now, auth>>

\* update_user(conn, user['id'], {'password_hash': ...}) and its commit.
ResetUpdate(p) ==
    /\ pc[p] = "reset_update"
    /\ password_hash' = [password_hash EXCEPT ![req[p].user] = hash_password(req[p].password)]
    /\ pc' = [pc EXCEPT ![p] = "reset_mark"]
    /\ UNCHANGED <<db, nextChatId, nextMessageId, now, req, resp, user_otps>>

\* mark_otp_as_used(conn, otp_record['id']) and its commit.
ResetMark(p) ==
    /\ pc[p] = "reset_mark"
    /\ user_otps' = mark_otp_as_used(user_otps, req[p].otp_id)
    /\ pc' = [pc EXCEPT ![p] = "reset_invalidate"]
    /\ UNCHANGED <<db, nextChatId, nextMessageId, now, req, resp, password_hash>>

\* invalidate_user_otps(conn, user['id']), its commit and the response.
ResetInvalidate(p) ==
    /\ pc[p] = "reset_invalidate"
    /\ user_otps' = invalidate_user_otps(user_otps, req[p].user)
    /\ Reply(p, [code |-> 200, message |-> "Password reset successfully",
                 email |-> Email[req[p].user]])
    /\ UNCHANGED <<db, nextChatId, nextMessageId, now, req, password_hash>>

\* ----------------------------------------------------- POST /api/auth/login
\* The email is looked up as given.
Login(p, email, password) ==
    /\ pc[p] = "idle"
    /\ LET user == get_user_by_email(email) IN
       IF user = NULL
       THEN /\ Reply(p, [code |-> 401, error |-> "Invalid credentials"])
            /\ req' = req
       ELSE IF ~verify_password(password, password_hash[user])
       THEN /\ Reply(p, [code |-> 401, error |-> "Invalid credentials"])
            /\ req' = req
       ELSE /\ Reply(p, [code |-> 200, message |-> "Login successful", user |-> user])
            /\ req' = [req EXCEPT ![p] = [NoReq EXCEPT !.op = "login", !.user = user,
                                                        !.password = password]]
    /\ UNCHANGED <<db, nextChatId, nextMessageId, now, auth>>

\* ------------------------------------------------ ChatModel, called directly
\* ChatModel.create_chat(conn, chat_type): the chat row and its commit.
CreateChat(chat_type) ==
    /\ nextChatId <= MaxChats
    /\ nextChatId' = nextChatId + 1
    /\ chats' = nextChatId :> [type |-> chat_type, last_message_id |-> NULL,
                                created_at |-> now] @@ chats
    /\ UNCHANGED <<chat_participants, messages, message_status, message_media,
                   nextMessageId, now, pc, req, resp, auth>>

\* ChatModel.add_participant(conn, chat_id, user_id) on a chat of any type.
AddParticipantCall(chat_id, user_id) ==
    /\ chat_id \in DOMAIN chats
    /\ chat_participants' = add_participant(chat_participants, chat_id, user_id).rows
    /\ chat_participants' # chat_participants
    /\ UNCHANGED <<chats, messages, message_status, message_media,
                   nextChatId, nextMessageId, now, pc, req, resp, auth>>

\* ------------------------------------------------------------ specifications
\* The steps of the chat-creating routes.
ChatStep(p) ==
    \/ \E o \in Users : PrivateSelect(p, CurrentUser(p), o)
    \/ PrivateInsert(p)
    \/ \E others \in SUBSET Users :
          GroupCreate(p, CurrentUser(p), others \ {CurrentUser(p)})
    \/ GroupAdd(p)
    \/ GroupReply(p)

MemberStep(p) ==
    \E c \in 1..MaxChats, o \in Users : AddParticipant(p, CurrentUser(p), c, o)

\* The steps of send_message, up to the message id cap.
SendStepTo(p, cap) ==
    \/ \E c \in 1..MaxChats, k \in SendKinds :
          SendStart(p, CurrentUser(p), c, k[1], k[2], k[3])
    \/ nextMessageId <= cap /\ SendInsert(p)
    \/ SendCommit(p)
    \/ SendRollback(p)
    \/ \E ok \in BOOLEAN : SendMedia(p, ok)
    \/ SendRefetch(p)

\* The steps of the messaging routes.
MsgStep(p) ==
    \/ SendStepTo(p, MaxMessages)
    \/ \E c \in 1..MaxChats : MarkSeen(p, CurrentUser(p), c)


ReadStep(p) ==
    \/ \E c \in 1..MaxChats : GetChat(p, CurrentUser(p), c)
    \/ \E c \in 1..MaxChats, k \in Pages : GetMessages(p, CurrentUser(p), c, k[1], k[2])

ListStep(p) == \E k \in Pages : GetChats(p, CurrentUser(p), k[1], k[2])

\* Spec: the state-changing routes of the chat blueprint, the workers'
\* requests interleaved statement by statement.
Next ==
    \/ Tick
    \/ \E p \in Procs : Finish(p)
    \/ \E p \in Procs : ChatStep(p)
    \/ \E p \in Procs : MemberStep(p)
    \/ \E p \in Procs : MsgStep(p)

Spec == Init /\ [][Next]_vars

\* SpecSeq: every state-changing route, one request at a time (a worker runs a
\* statement of one only while the other workers are idle).
Quiet(p) == \A q \in Procs \ {p} : pc[q] = "idle"
Delivered(p) == \A q \in Procs \ {p} : pc[q] # "done"

NextSeq ==
    \/ Tick
    \/ \E p \in Procs : Finish(p)
    \/ \E p \in Procs : Quiet(p) /\ ChatStep(p)
    \/ \E p \in Procs : Quiet(p) /\ MemberStep(p)
    \/ \E p \in Procs : Quiet(p) /\ MsgStep(p)

SpecSeq == Init /\ [][NextSeq]_vars

\* SpecChats: the chat-creating and membership routes alone, interleaved.
NextChats ==
    \/ \E p \in Procs : Finish(p)
    \/ \E p \in Procs : ChatStep(p)
    \/ \E p \in Procs : MemberStep(p)

SpecChats == Init /\ [][NextChats]_vars

\* SpecMsg: the messaging routes, interleaved, on the chat an earlier request
\* has left: POST /api/chats group by user 2 with user 3 (chat 1).  User 1 is
\* an outsider until user 2 adds them.
InitMsg ==
    /\ chats = (1 :> [type |-> "group", last_message_id |-> NULL, created_at |-> 1])
    /\ chat_participants = {<<1, 2>>, <<1, 3>>}
    /\ messages = <<>>
    /\ message_status = <<>>
    /\ message_media = {}
    /\ nextChatId = 2
    /\ nextMessageId = 1
    /\ now = 1
    /\ pc = [p \in Procs |-> "idle"]
    /\ req = [p \in Procs |-> NoReq]
    /\ resp = [p \in Procs |-> NoResp]
    /\ password_hash = [u \in Users |-> hash_password(InitialPassword)]
    /\ user_otps = <<>>

NextMsg ==
    \/ Tick
    \/ \E p \in Procs : Finish(p)
    \/ \E p \in Procs : MemberStep(p)
    \/ \E p \in Procs : MsgStep(p)

SpecMsg == InitMsg /\ [][NextMsg]_vars

\* SpecMsgRead: the messaging routes one state-changing request at a time,
\* and the two read routes answered at any moment, also between two statements
\* of a send.
NextMsgRead ==
    \/ Tick
    \/ \E p \in Procs : Finish(p)
    \/ \E p \in Procs : Quiet(p) /\ MemberStep(p)
    \/ \E p \in Procs : Quiet(p) /\ MsgStep(p)
    \/ \E p \in Procs : Delivered(p) /\ ReadStep(p)

SpecMsgRead == InitMsg /\ [][NextMsgRead]_vars

\* SpecCore: the messaging routes one request at a time, and the model
\* layer's update_message_status called directly.
NextCore ==
    \/ Tick
    \/ \E p \in Procs : Finish(p)
    \/ \E p \in Procs : Quiet(p) /\ MemberStep(p)
    \/ \E p \in Procs : Quiet(p) /\ MsgStep(p)
    \/ \E m \in 1..MaxMessages, u \in Users, status \in Statuses :
          UpdateMessageStatus(m, u, status)

SpecCore == InitMsg /\ [][NextCore]_vars

\* SpecList: the messaging routes and the chat list, one request at a time, on
\* the chats two earlier requests have left: POST /api/chats
\* private by user 1 with user 2 (chat 1), then group by user 2 with user 3
\* (chat 2) in the same or the next tick.
InitList ==
    /\ \E t \in {1, 2} :
          /\ chats = (1 :> [type |-> "private", last_message_id |-> NULL, created_at |-> 1]
                      @@ 2 :> [type |-> "group", last_message_id |-> NULL, created_at |-> t])
          /\ now = t
    /\ chat_participants = {<<1, 1>>, <<1, 2>>, <<2, 2>>, <<2, 3>>}
    /\ messages = <<>>
    /\ message_status = <<>>
    /\ message_media = {}
    /\ nextChatId = 3
    /\ nextMessageId = 1
    /\ pc = [p \in Procs |-> "idle"]
    /\ req = [p \in Procs |-> NoReq]
    /\ resp = [p \in Procs |-> NoResp]
    /\ password_hash = [u \in Users |-> hash_password(InitialPassword)]
    /\ user_otps = <<>>

NextList ==
    \/ Tick
    \/ \E p \in Procs : Finish(p)
    \/ \E p \in Procs : Quiet(p) /\ MemberStep(p)
    \/ \E p \in Procs : Quiet(p) /\ MsgStep(p)
    \/ \E p \in Procs : Quiet(p) /\ ListStep(p)

SpecList == InitList /\ [][NextList]_vars

\* SpecPage: sends and GET messages, one request at a time, on the same two
\* chats.  One
\* message more than in the other specifications fits, so that a chat can hold
\* two and a page can cut between them.
NextPage ==
    \/ Tick
    \/ \E p \in Procs : Finish(p)
    \/ \E p \in Procs : Quiet(p) /\ SendStepTo(p, MaxMessages + 1)
    \/ \E p \in Procs, c \in 1..MaxChats, k \in Pages :
          Quiet(p) /\ GetMessages(p, CurrentUser(p), c, k[1], k[2])

SpecPage == InitList /\ [][NextPage]_vars

\* The steps of reset_password.
ResetStep(p) ==
    \/ \E email \in EmailInputs, otp_code \in Codes, new_password \in NewPasswords :
          ResetStart(p, email, otp_code, new_password)
    \/ ResetUpdate(p)
    \/ ResetMark(p)
    \/ ResetInvalidate(p)

\* forgot_password's steps, and verify_otp and login, one step each.
OtpStep(p) ==
    \/ \E email \in EmailInputs, otp_code \in Codes : ForgotPassword(p, email, otp_code)
    \/ CreateOtpInsert(p)
    \/ \E email \in EmailInputs, otp_code \in Codes : VerifyOtp(p, email, otp_code)
    \/ \E email \in {"a@x.com", "nobody@x.com"}, password \in Passwords :
          Login(p, email, password)

\* SpecAuth: the password-reset routes and login, the workers' requests
\* interleaved statement by statement.
NextAuth ==
    \/ Minute
    \/ \E p \in Procs : Finish(p)
    \/ \E p \in Procs : OtpStep(p)
    \/ \E p \in Procs : CreateOtpFails(p)
    \/ \E p \in Procs : ResetStep(p)

SpecAuth == Init /\ [][NextAuth]_vars

\* SpecAuthSeq: the same routes, one request at a time.
NextAuthSeq ==
    \/ Minute
    \/ \E p \in Procs : Finish(p)
    \/ \E p \in Procs : Quiet(p) /\ OtpStep(p)
    \/ \E p \in Procs : Quiet(p) /\ ResetStep(p)

SpecAuthSeq == Init /\ [][NextAuthSeq]_vars

\* SpecOtp: the requests that write user_otps, forgot_password and
\* reset_password, interleaved statement by statement within the OTPs'
\* validity (no write to user_otps depends on the clock but through
\* verify_otp's expiry test, which SpecAuth exercises).
NextOtp ==
    \/ \E p \in Procs : Finish(p)
    \/ \E p \in Procs, email \in EmailInputs, otp_code \in Codes :
          ForgotPassword(p, email, otp_code)
    \/ \E p \in Procs : CreateOtpInsert(p)
    \/ \E p \in Procs : CreateOtpFails(p)
    \/ \E p \in Procs : ResetStep(p)

SpecOtp == Init /\ [][NextOtp]_vars

\* SpecPrivate: POST /api/chats of type private over the chats that
\* ChatModel.create_chat and ChatModel.add_participant can leave: chats of
\* either type with any participants.
NextPrivate ==
    \/ \E p \in Procs : Finish(p)
    \/ \E chat_type \in {"private", "group"} : CreateChat(chat_type)
    \/ \E c \in 1..MaxChats, u \in Users : AddParticipantCall(c, u)
    \/ \E p \in Procs, o \in Users : PrivateSelect(p, CurrentUser(p), o)
    \/ \E p \in Procs : PrivateInsert(p)

SpecPrivate == Init /\ [][NextPrivate]_vars

\* SpecStatus: text messages sent and chats marked seen, one request at a
\* time, and the model layer's update_message_status called between them, on the
\* two chats of InitList; one message more than MaxMessages fits, so that both
\* chats can hold one.
StatusStep(p) ==
    \/ \E c \in 1..MaxChats : SendStart(p, CurrentUser(p), c, "text", "hi", "none")
    \/ nextMessageId <= MaxMessages + 1 /\ SendInsert(p)
    \/ SendCommit(p)
    \/ SendRefetch(p)
    \/ \E c \in 1..MaxChats : MarkSeen(p, CurrentUser(p), c)

NextStatus ==
    \/ Tick
    \/ \E p \in Procs : Finish(p)
    \/ \E p \in Procs : Quiet(p) /\ StatusStep(p)
    \/ \E m \in 1..(MaxMessages + 1), u \in Users, status \in Statuses :
          (\A p \in Procs : pc[p] = "idle") /\ UpdateMessageStatus(m, u, status)

SpecStatus == InitList /\ [][NextStatus]_vars

\* SpecSeen: text messages sent, chats marked seen and participants added, one
\* request at a time, on the two chats of InitList; user 1 is an outsider of
\* chat 2 until user 2 adds them.  One message more than MaxMessages fits, so
\* that both chats can hold one.
NextSeen ==
    \/ Tick
    \/ \E p \in Procs : Finish(p)
    \/ \E p \in Procs : Quiet(p) /\ StatusStep(p)
    \/ \E p \in Procs : Quiet(p) /\ MemberStep(p)

SpecSeen == InitList /\ [][NextSeen]_vars

\* SpecGroup: POST /api/chats of type group, the requests interleaved, where
\* any INSERT may raise.
NextGroup ==
    \/ \E p \in Procs : Finish(p)
    \/ \E p \in Procs, others \in SUBSET Users :
          GroupCreate(p, CurrentUser(p), others \ {CurrentUser(p)})
    \/ \E p \in Procs, others \in SUBSET Users :
          GroupCreateFails(p, CurrentUser(p), others \ {CurrentUser(p)})
    \/ \E p \in Procs : GroupAdd(p)
    \/ \E p \in Procs : GroupAddFails(p)
    \/ \E p \in Procs : GroupReply(p)

SpecGroup == Init /\ [][NextGroup]_vars

\* SpecRace: send_message requests for text messages interleaved statement by
\* statement on the two chats of InitList, with room for one message more than
\* MaxMessages, so that two sends can meet in one chat.
RaceStep(p) ==
    \/ \E c \in 1..MaxChats : SendStart(p, CurrentUser(p), c, "text", "hi", "none")
    \/ nextMessageId <= MaxMessages + 1 /\ SendInsert(p)
    \/ SendCommit(p)
    \/ SendRollback(p)
    \/ SendRefetch(p)

NextRace ==
    \/ Tick
    \/ \E p \in Procs : Finish(p)
    \/ \E p \in Procs : RaceStep(p)

SpecRace == InitList /\ [][NextRace]_vars

\* ==================================================================== claims
\* The private chats whose participant set is exactly {a, b}.
PrivateChatsOf(a, b) ==
    {c \in DOMAIN chats : chats[c].type = "private" /\ Participants(c) = {a, b}}

Pair(p) == {req[p].user} \cup req[p].others

ReturnedPrivate(p) ==
    /\ pc[p] = "done"
    /\ req[p].op = "private"
    /\ resp[p].code = 201

\* C1: when two get-or-create-private-chat calls for the same pair of distinct
\* users have both finished, exactly one private chat of that pair exists and
\* both calls returned its id.
C1_ConcurrentCallsShareOneChat ==
    \A p, q \in Procs :
        (/\ p # q
         /\ ReturnedPrivate(p) /\ ReturnedPrivate(q)
         /\ Pair(p) = Pair(q)
         /\ Cardinality(Pair(p)) = 2)
        => /\ \E a, b \in Pair(p) : Cardinality(PrivateChatsOf(a, b)) = 1
           /\ resp[p].chat.id = resp[q].chat.id

\* C2: with one request at a time, a get-or-create-private-chat call for a pair
\* of distinct users that already has its private chat (an earlier call
\* returned it) answers at once with that one chat, in either argument order,
\* and adds no chat row and no participant row, whatever was sent or marked
\* seen in between.
C2_SecondCallReturnsSameChat ==
    [][\A p \in Procs, o \in Users :
          (/\ PrivateSelect(p, CurrentUser(p), o)
           /\ o # CurrentUser(p)
           /\ PrivateChatsOf(CurrentUser(p), o) # {})
          => /\ Cardinality(PrivateChatsOf(CurrentUser(p), o)) = 1
             /\ pc'[p] = "done"
             /\ resp'[p].code = 201
             /\ resp'[p].chat.id \in PrivateChatsOf(CurrentUser(p), o)
             /\ chats' = chats
             /\ chat_participants' = chat_participants
             /\ nextChatId' = nextChatId]_vars

\* A later call found the chat after a message was sent into it and marked seen.
C2_Witness ==
    \E p \in Procs :
        /\ ReturnedPrivate(p)
        /\ resp[p].chat.last_message_id # NULL
        /\ \E k \in DOMAIN message_status :
              /\ messages[k[1]].chat_id = resp[p].chat.id
              /\ message_status[k].status = "seen"

\* A step of worker p's send has failed: create_message rolled back (500), or
\* the media row of an uploaded file was not inserted.
SendStepFailed(p) ==
    /\ pc[p] = "done"
    /\ req[p].op = "send"
    /\ req[p].message_id # NULL
    /\ \/ resp[p].code = 500
       \/ /\ req[p].message_type = "photo"
          /\ req[p].media = "file"
          /\ req[p].message_id \notin message_media

\* C3: a send of which any step failed, the media insert included, leaves no
\* message row, no status row and no media row of its message, and
\* chat.last_message_id is not that message.
C3_SendIsAllOrNothing ==
    \A p \in Procs :
        SendStepFailed(p)
        => /\ req[p].message_id \notin DOMAIN messages
           /\ StatusUsers(req[p].message_id) = {}
           /\ req[p].message_id \notin message_media
           /\ chats[req[p].chat].last_message_id # req[p].message_id

\* C4: the commit of a send into a chat of N participants (those the send's
\* transaction read, the sender among them) creates exactly N-1 status rows for
\* the new message: one per participant other than the sender, none for the
\* sender, each 'sent' with null seen_at.
C4_FanOutToAllButSender ==
    [][\A p \in Procs :
          SendCommit(p)
          => LET m == req[p].message_id
                 to == {u \in Users : <<m, u>> \in DOMAIN message_status'}
             IN /\ req[p].user \in req[p].seen
                /\ to = req[p].seen \ {req[p].user}
                /\ Cardinality(to) = Cardinality(req[p].seen) - 1
                /\ req[p].user \notin to
                /\ \A u \in to :
                      message_status'[<<m, u>>] = [status |-> "sent", seen_at |-> NULL]
                /\ \A k \in DOMAIN message_status : message_status'[k] = message_status[k]]_vars

\* A message sent into a chat of three participants has its two status rows.
C4_Witness ==
    \E m \in DOMAIN messages :
        /\ Cardinality(Participants(messages[m].chat_id)) = 3
        /\ Cardinality(StatusUsers(m)) = 2
        /\ \A u \in StatusUsers(m) : message_status[<<m, u>>].status = "sent"

\* C5: in the committed rows, which are all that a reader on another
\* connection sees, a send that has inserted its message but not yet committed
\* shows nothing, and a message that is visible has its chat pointer update and
\* the status rows of all its recipients visible with it.
C5_SendVisibleAtomically ==
    /\ \A p \in Procs :
          pc[p] = "send_commit"
          => /\ req[p].message_id \notin DOMAIN messages
             /\ StatusUsers(req[p].message_id) = {}
             /\ chats[req[p].chat].last_message_id # req[p].message_id
    /\ \A m \in DOMAIN messages :
          /\ chats[messages[m].chat_id].last_message_id \in MessagesOf(messages[m].chat_id)
          /\ \A p \in Procs :
                req[p].message_id = m
                => Recipients(req[p].seen, req[p].user) \subseteq StatusUsers(m)

\* A send is between its INSERT and its commit while another worker's request
\* has read the chat and been answered.
C5_Witness ==
    \E p, q \in Procs :
        /\ pc[p] = "send_commit"
        /\ pc[q] = "done"
        /\ req[q].op = "mark_seen"
        /\ req[q].chat = req[p].chat

\* The order sent < delivered < seen of the status values.
StatusRank(s) == CASE s = "sent" -> 0 [] s = "delivered" -> 1 [] s = "seen" -> 2

\* C6: no step moves a status row backwards in sent < delivered < seen.
C6_StatusNeverRegresses ==
    [][\A k \in DOMAIN message_status :
          StatusRank(message_status'[k].status) >= StatusRank(message_status[k].status)]_vars

\* C7: marking a chat seen for a user twice in a row, the second time at the
\* same or a later time, gives the same status and seen_at on every status row
\* as marking it once.
C7_MarkSeenIdempotent ==
    \A c \in DOMAIN chats, u \in Users, t1 \in 1..MaxTime, t2 \in 1..MaxTime :
        t1 <= t2
        => mark_chat_messages_as_seen(
               mark_chat_messages_as_seen(message_status, c, u, t1), c, u, t2)
           = mark_chat_messages_as_seen(message_status, c, u, t1)

\* A mark-seen request was answered at a time later than the seen_at of a row
\* it covers: the row was seen before the request and kept its seen_at.
C7_Witness ==
    \E p \in Procs, k \in DOMAIN message_status :
        /\ pc[p] = "done"
        /\ req[p].op = "mark_seen"
        /\ k[2] = req[p].user
        /\ messages[k[1]].chat_id = req[p].chat
        /\ message_status[k].status = "seen"
        /\ message_status[k].seen_at < req[p].created_at

\* C8: every private chat has exactly 2 distinct participants, and no step
\* changes the participant set or the type of a private chat.
C8_PrivateChatHasItsTwoParticipants ==
    /\ [](\A c \in DOMAIN chats :
            chats[c].type = "private" => Cardinality(Participants(c)) = 2)
    /\ [][\A c \in DOMAIN chats :
            chats[c].type = "private"
            => /\ c \in DOMAIN chats'
               /\ chats'[c].type = "private"
               /\ {u \in Users : <<c, u>> \in chat_participants'} = Participants(c)]_vars

\* A participant of a private chat asked to add a member to it and was refused.
C8_Witness ==
    \E p \in Procs :
        /\ pc[p] = "done"
        /\ resp[p].code = 400
        /\ resp[p].error = "Can only add participants to group chats"
        /\ \E c \in DOMAIN chats : chats[c].type = "private"

\* C9: GET chat answers 404, with no chat, to a user who is not a participant,
\* and answers a participant with the chat, its participants and the summary
\* of its last message.
C9_GetChatOnlyForParticipants ==
    [][\A p \in Procs, c \in 1..MaxChats :
          GetChat(p, CurrentUser(p), c)
          => IF CurrentUser(p) \in Participants(c)
             THEN /\ resp'[p].code = 200
                  /\ resp'[p].chat.id = c
                  /\ resp'[p].chat.type = chats[c].type
                  /\ resp'[p].chat.participants = Participants(c)
                  /\ resp'[p].chat.last_message_id = chats[c].last_message_id
                  /\ resp'[p].chat.last_message_content =
                        IF chats[c].last_message_id = NULL THEN "null"
                        ELSE messages[chats[c].last_message_id].content
             ELSE /\ resp'[p].code = 404
                  /\ "chat" \notin DOMAIN resp'[p]]_vars

\* An outsider asked for an existing chat that has participants and got 404.
C9_Witness ==
    \E p \in Procs :
        /\ pc[p] = "done"
        /\ req[p].op = "get_chat"
        /\ req[p].chat \in DOMAIN chats
        /\ Participants(req[p].chat) # {}
        /\ req[p].user \notin Participants(req[p].chat)
        /\ resp[p].code = 404

\* What each chat-scoped route answers for a chat id that does not exist.
NotFound == [code |-> 404, error |-> "Chat not found or unauthorized"]
NoMessages == [code |-> 200, messages |-> <<>>, count |-> 0]

\* C10: every chat-scoped route answers a requester who is not a participant
\* of the chat with the answer it gives for a chat id that does not exist,
\* whatever the chat holds, and writes nothing.
C10_OutsiderSeesNoDifference ==
    [][\A p \in Procs, c \in 1..MaxChats :
          CurrentUser(p) \notin Participants(c)
          => /\ GetChat(p, CurrentUser(p), c) => resp'[p] = NotFound
             /\ \A k \in Pages :
                   GetMessages(p, CurrentUser(p), c, k[1], k[2]) => resp'[p] = NoMessages
             /\ \A k \in SendKinds :
                   SendStart(p, CurrentUser(p), c, k[1], k[2], k[3])
                   => pc'[p] = "done" /\ resp'[p] = NotFound
             /\ MarkSeen(p, CurrentUser(p), c) => resp'[p] = NotFound
             /\ \A o \in Users :
                   AddParticipant(p, CurrentUser(p), c, o) => resp'[p] = NotFound]_vars

\* An outsider asked for the messages of an existing chat that has a message
\* and was answered as for a chat that does not exist.
C10_Witness ==
    \E p \in Procs :
        /\ pc[p] = "done"
        /\ req[p].op = "get_messages"
        /\ req[p].user \notin Participants(req[p].chat)
        /\ MessagesOf(req[p].chat) # {}
        /\ resp[p] = NoMessages
\* C11: GET messages answers a requester who is not a participant of the chat
\* with a 4xx response and no message list.
C11_OutsiderMessagesRejected ==
    [][\A p \in Procs, c \in 1..MaxChats, k \in Pages :
          (/\ CurrentUser(p) \notin Participants(c)
           /\ GetMessages(p, CurrentUser(p), c, k[1], k[2]))
          => /\ resp'[p].code \in 400..499
             /\ "messages" \notin DOMAIN resp'[p]]_vars

\* C12: a send of type text with empty content is rejected at once, with 400
\* "Content is required" for a participant and 404 for anyone else, and writes
\* nothing: no message row, no status row, no change of a chat's
\* last_message_id, no message id consumed.
C12_EmptyTextRejectedBeforeWrite ==
    [][\A p \in Procs, c \in 1..MaxChats :
          SendStart(p, CurrentUser(p), c, "text", "", "none")
          => /\ pc'[p] = "done"
             /\ resp'[p] = IF CurrentUser(p) \in Participants(c)
                           THEN [code |-> 400, error |-> "Content is required for text messages"]
                           ELSE NotFound
             /\ db' = db
             /\ nextMessageId' = nextMessageId]_vars

\* A participant's empty text message was rejected while another worker's
\* send had inserted its message row and not yet committed.
C12_Witness ==
    \E p \in Procs :
        /\ pc[p] = "done"
        /\ resp[p] = [code |-> 400, error |-> "Content is required for text messages"]
        /\ \E q \in Procs \ {p} : pc[q] = "send_commit"

\* C13: GET messages reports for each message the requesting user's own status
\* row, status and seen_at, and 'seen' with no seen_at when the requester has
\* no row for it (the sender).
C13_OwnStatusOrSeen ==
    [][\A p \in Procs, c \in 1..MaxChats, k \in Pages :
          GetMessages(p, CurrentUser(p), c, k[1], k[2])
          => \A i \in DOMAIN resp'[p].messages :
                LET row == resp'[p].messages[i]
                    key == <<row.id, CurrentUser(p)>>
                IN IF key \in DOMAIN message_status
                   THEN /\ row.status = message_status[key].status
                        /\ row.seen_at = message_status[key].seen_at
                   ELSE /\ row.status = "seen"
                        /\ row.seen_at = NULL]_vars

\* A recipient who has marked the chat seen read a message with their own
\* 'seen' row while another recipient's row of the same message is 'sent'.
C13_Witness ==
    \E p \in Procs :
        /\ pc[p] = "done"
        /\ req[p].op = "get_messages"
        /\ \E i \in DOMAIN resp[p].messages :
              /\ resp[p].messages[i].status = "seen"
              /\ resp[p].messages[i].seen_at # NULL
              /\ resp[p].messages[i].sender_id # req[p].user
              /\ \E u \in Users :
                    /\ <<resp[p].messages[i].id, u>> \in DOMAIN message_status
                    /\ message_status[<<resp[p].messages[i].id, u>>].status = "sent"
\* C14: adding a user who already is a participant of the group chat is
\* answered 400 "already member", not an error, and changes no row; an add
\* answered 200 has inserted the one row of a pair that was not yet present.
\* So of two adds of one pair, also when they run at once, one inserts and the
\* other is the no-op.
C14_DuplicateAddIsNoOp ==
    [][\A p \in Procs, c \in 1..MaxChats, o \in Users :
          (/\ AddParticipant(p, CurrentUser(p), c, o)
           /\ CurrentUser(p) \in Participants(c)
           /\ chats[c].type = "group")
          => IF o \in Participants(c)
             THEN /\ resp'[p] = [code |-> 400,
                                 error |-> "Failed to add participant or already member"]
                  /\ db' = db
             ELSE /\ resp'[p].code = 200
                  /\ chat_participants' = chat_participants \cup {<<c, o>>}
                  /\ UNCHANGED <<chats, messages, message_status, message_media>>]_vars

\* Two adds were answered side by side, one with 200 and one with "already
\* member".
C14_Witness ==
    \E p, q \in Procs :
        /\ pc[p] = "done" /\ pc[q] = "done"
        /\ resp[p] = [code |-> 200, message |-> "Participant added successfully"]
        /\ resp[q] = [code |-> 400, error |-> "Failed to add participant or already member"]
\* The orders of chat ids GET /api/chats can answer user u with.
ChatIdOrders(u) ==
    {[i \in DOMAIN l |-> l[i].id] : l \in get_user_chats(u, 50, 0)}

\* C15: GET /api/chats lists exactly the chats the user is a participant of,
\* each once, newest chat first; a step of a send or of mark-seen changes
\* neither which chats a user is listed nor their order, and a send's commit
\* changes the row of the chat written to only, in its last-message summary.
C15_ChatListByCreation ==
    [][/\ \A p \in Procs :
             (req'[p].op = "get_chats" /\ GetChats(p, CurrentUser(p), 50, 0))
             => LET l == resp'[p].chats IN
                /\ {l[i].id : i \in DOMAIN l} = UserChats(CurrentUser(p))
                /\ Len(l) = Cardinality(UserChats(CurrentUser(p)))
                /\ \A i, j \in DOMAIN l :
                      i < j => chats[l[i].id].created_at >= chats[l[j].id].created_at
       /\ \A p \in Procs :
             (pc'[p] # pc[p] /\ db' # db /\ MsgStep(p))
             => /\ \A u \in Users : ChatIdOrders(u)' = ChatIdOrders(u)
                /\ \A c \in DOMAIN chats :
                      /\ ChatView(c)'.type = ChatView(c).type
                      /\ ChatView(c)'.participants = ChatView(c).participants
                      /\ (~SendCommit(p) \/ c # req[p].chat) => ChatView(c)' = ChatView(c)]_vars

\* User 2 was listed the newer chat, which has no message, before the older
\* chat, into which a message was sent.
C15_Witness ==
    \E p \in Procs :
        /\ pc[p] = "done"
        /\ req[p].op = "get_chats"
        /\ resp[p].count = 2
        /\ chats[resp[p].chats[1].id].created_at > chats[resp[p].chats[2].id].created_at
        /\ resp[p].chats[1].last_message_id = NULL
        /\ resp[p].chats[2].last_message_id # NULL

\* C16: GET messages answers a participant with messages of that chat only,
\* none twice, most recent first, cut out of the chat's messages in descending
\* creation order at [offset, offset + limit): the row at place i of the page
\* has at most offset + i - 1 messages of the chat newer than it and at least
\* offset + i that are not older.
C16_PageOfDescendingMessages ==
    [][\A p \in Procs, c \in 1..MaxChats, k \in Pages :
          (/\ CurrentUser(p) \in Participants(c)
           /\ req'[p].op = "get_messages" /\ req'[p].chat = c
           /\ GetMessages(p, CurrentUser(p), c, k[1], k[2]))
          => LET l == resp'[p].messages
                 n == Cardinality(MessagesOf(c))
                 at(i) == messages[l[i].id].created_at
             IN /\ Len(l) = IF n - k[2] < 0 THEN 0
                            ELSE IF n - k[2] < k[1] THEN n - k[2] ELSE k[1]
                /\ \A i \in DOMAIN l : l[i].id \in MessagesOf(c)
                /\ \A i, j \in DOMAIN l : i # j => l[i].id # l[j].id
                /\ \A i, j \in DOMAIN l : i < j => at(i) >= at(j)
                /\ \A i \in DOMAIN l :
                      /\ Cardinality({m \in MessagesOf(c) : messages[m].created_at > at(i)})
                            <= k[2] + i - 1
                      /\ Cardinality({m \in MessagesOf(c) : messages[m].created_at >= at(i)})
                            >= k[2] + i]_vars

\* The second page of one row was read from a chat of two messages sent at
\* different times, and holds the older message.
C16_Witness ==
    \E p \in Procs :
        /\ pc[p] = "done"
        /\ req[p].op = "get_messages"
        /\ resp[p].count = 1
        /\ Cardinality(MessagesOf(req[p].chat)) = 2
        /\ \E m \in MessagesOf(req[p].chat) :
              messages[m].created_at > messages[resp[p].messages[1].id].created_at
\* Worker p's reset-password request has been answered 200.
ResetSucceeded(p) ==
    /\ pc[p] = "done"
    /\ req[p].op = "reset"
    /\ resp[p].code = 200

\* C17: an OTP row is consumed by at most one successful reset-password
\* request: no two requests, one after the other or at once, are answered 200
\* on the same OTP.
C17_OtpConsumedOnce ==
    \A p, q \in Procs :
        (p # q /\ ResetSucceeded(p) /\ ResetSucceeded(q))
        => req[p].otp_id # req[q].otp_id

\* What forgot-password answers for an email of no user.
NoSuchEmail == [code |-> 200, message |-> "If the email exists, an OTP has been sent to it"]

\* C18: forgot-password answers every email, of a registered user or of
\* nobody, with the same status code and body.
C18_ForgotPasswordRevealsNothing ==
    \A p \in Procs :
        (pc[p] = "done" /\ req[p].op = "forgot") => resp[p] = NoSuchEmail

\* An OTP row that reset-password may be used with at time t for the user.
UsableOtp(row, user_id, otp_code, t) ==
    /\ row.user_id = user_id
    /\ row.otp_code = otp_code
    /\ row.type = "password_reset"
    /\ row.validity = "active"
    /\ row.is_used = 0
    /\ row.created_at + 3 > t

\* C19: every OTP expires 3 minutes after its creation; reset-password goes on
\* to change the password only when the code is that of a password_reset OTP
\* of the user of the email which is active, unused and not expired, and
\* answers 401 with the password and every OTP row unchanged otherwise; the
\* password of a user changes in no other way than by the update of such a
\* request, for the user the OTP it found belongs to.
C19_ResetNeedsUsableOtp ==
    [][/\ \A i \in DOMAIN user_otps :
             user_otps[i].expires_at = user_otps[i].created_at + 3
       /\ \A p \in Procs :
             /\ (pc[p] = "idle" /\ req'[p].op = "reset")
                => IF \E i \in DOMAIN user_otps :
                         UsableOtp(user_otps[i], req'[p].user, req'[p].otp_code, now)
                   THEN /\ pc'[p] = "reset_update"
                        /\ UsableOtp(user_otps[req'[p].otp_id], req'[p].user,
                                     req'[p].otp_code, now)
                   ELSE /\ pc'[p] = "done"
                        /\ resp'[p].code = 401
             /\ (pc[p] = "idle" /\ pc'[p] = "done" /\ resp'[p].code = 401)
                => auth' = auth
       /\ password_hash' # password_hash
          => \E p \in Procs :
                /\ pc[p] = "reset_update" /\ pc'[p] = "reset_mark"
                /\ \A u \in Users \ {req[p].user} : password_hash'[u] = password_hash[u]
                /\ user_otps[req[p].otp_id].user_id = req[p].user
                /\ user_otps[req[p].otp_id].otp_code = req[p].otp_code
                /\ user_otps[req[p].otp_id].type = "password_reset"]_vars

\* A reset-password with the code of an OTP of the user that is active and
\* unused but past its expiry was answered 401.
C19_Witness ==
    \E p \in Procs :
        /\ pc[p] = "done"
        /\ req[p].op = "reset"
        /\ resp[p].code = 401
        /\ \E i \in DOMAIN user_otps :
              /\ user_otps[i].user_id = req[p].user
              /\ user_otps[i].otp_code = req[p].otp_code
              /\ user_otps[i].validity = "active"
              /\ user_otps[i].is_used = 0
              /\ user_otps[i].expires_at <= now

\* C20: a verify-otp request changes no OTP row and no password, and the code
\* it accepted still verifies after it; a reset-password with a code that
\* verifies is not turned away but goes on to set the password, the stored
\* hash is then that of the new password, the request ends with 200, and a
\* login with the password the stored hash is of is answered 200.
C20_VerifyDoesNotConsume ==
    [][\A p \in Procs :
        /\ (pc[p] = "idle" /\ pc'[p] = "done" /\ auth' # auth)
           => \A email \in EmailInputs, otp_code \in Codes : ~VerifyOtp(p, email, otp_code)
        /\ (pc[p] = "idle" /\ req'[p].op = "verify_otp")
           => /\ resp'[p].code = 200
              /\ req'[p].otp_id
                   \in verify_otp(user_otps', req'[p].user,
                                  user_otps'[req'[p].otp_id].otp_code, "password_reset", now')
        /\ (pc[p] = "idle" /\ pc'[p] = "done" /\ req'[p].op = "reset")
           => verify_otp(user_otps, req'[p].user, req'[p].otp_code, "password_reset", now) = {}
        /\ (pc[p] = "reset_update" /\ pc'[p] = "reset_mark")
           => verify_password(req[p].password, password_hash'[req[p].user])
        /\ (pc[p] = "reset_invalidate" /\ pc'[p] = "done")
           => resp'[p].code = 200
        /\ (pc[p] = "idle" /\ pc'[p] = "done" /\ resp'[p].code # 200)
           => \A password \in Passwords :
                 password_hash[1] = hash_password(password)
                 => ~Login(p, "a@x.com", password)]_vars

\* verify-otp accepted a code and the OTP row it found is still active, unused
\* and unexpired.
C20_Witness ==
    \E p \in Procs :
        /\ pc[p] = "done"
        /\ req[p].op = "verify_otp"
        /\ resp[p].code = 200
        /\ UsableOtp(user_otps[req[p].otp_id], req[p].user,
                     user_otps[req[p].otp_id].otp_code, now)
\* Worker p's photo or video send without media files was answered with the
\* validation error.
MediaMissingRejected(p) ==
    /\ pc[p] = "done"
    /\ req[p].op = "send"
    /\ req[p].message_type \in {"photo", "video"}
    /\ req[p].media = "none"
    /\ resp[p].code = 400

\* C21: a photo or video send that carries no media files is rejected before
\* any write: after the 400 the request has inserted no message, or at least
\* no message row and no status row of it exists and the chat's
\* last_message_id is not its message.
C21_MediaMissingRejectedBeforeWrite ==
    \A p \in Procs :
        MediaMissingRejected(p)
        => \/ req[p].message_id = NULL
           \/ /\ req[p].message_id \notin DOMAIN messages
              /\ StatusUsers(req[p].message_id) = {}
              /\ chats[req[p].chat].last_message_id # req[p].message_id
\* C22: get-or-create-private-chat for two distinct users answers with an
\* existing chat only if it is private and its participants are exactly the
\* two, and writes nothing then; when no such chat exists, whatever group
\* chats, smaller or larger private chats hold them, it goes on to create a new
\* private chat whose participants are the two.
C22_ExactPairOrNewChat ==
    [][/\ \A p \in Procs, o \in Users :
             (o # CurrentUser(p) /\ PrivateSelect(p, CurrentUser(p), o))
             => /\ db' = db
                /\ IF PrivateChatsOf(CurrentUser(p), o) # {}
                   THEN /\ pc'[p] = "done"
                        /\ resp'[p].code = 201
                        /\ resp'[p].chat.id \in PrivateChatsOf(CurrentUser(p), o)
                   ELSE pc'[p] = "private_insert"
       /\ \A p \in Procs :
             (PrivateInsert(p) /\ req[p].others # {req[p].user})
             => /\ resp'[p].code = 201
                /\ resp'[p].chat.id = nextChatId
                /\ nextChatId \notin DOMAIN chats
                /\ chats'[nextChatId].type = "private"
                /\ {u \in Users : <<nextChatId, u>> \in chat_participants'} = Pair(p)
                /\ \A c \in DOMAIN chats :
                      /\ chats'[c] = chats[c]
                      /\ {u \in Users : <<c, u>> \in chat_participants'} = Participants(c)]_vars

\* A call was answered with a chat it created while an older private chat
\* holds the two users and a third.
C22_Witness ==
    \E p \in Procs :
        /\ ReturnedPrivate(p)
        /\ Cardinality(Pair(p)) = 2
        /\ Participants(resp[p].chat.id) = Pair(p)
        /\ \E c \in DOMAIN chats :
              /\ c < resp[p].chat.id
              /\ chats[c].type = "private"
              /\ Cardinality(Participants(c)) = 3
\* C23: after a mark-seen request of user u for chat c was answered 200, every
\* status row of u for a message of c is 'seen' with a seen_at, whether it was
\* 'sent' or 'delivered' before.
C23_MarkSeenLeavesAllSeen ==
    [][\A p \in Procs :
          (pc[p] = "idle" /\ req'[p].op = "mark_seen")
          => /\ resp'[p].code = 200
             /\ \A k \in DOMAIN message_status' :
                   (k[2] = req'[p].user /\ messages'[k[1]].chat_id = req'[p].chat)
                   => /\ message_status'[k].status = "seen"
                      /\ message_status'[k].seen_at # NULL]_vars

\* A mark-seen request has turned the requester's row of a message to 'seen'
\* at its own time while the row of the recipient of another message is
\* 'delivered'.
C23_Witness ==
    \E p \in Procs, k \in DOMAIN message_status :
        /\ pc[p] = "done"
        /\ req[p].op = "mark_seen"
        /\ k[2] = req[p].user
        /\ messages[k[1]].chat_id = req[p].chat
        /\ message_status[k] = [status |-> "seen", seen_at |-> req[p].created_at]
        /\ \E j \in DOMAIN message_status : message_status[j].status = "delivered"
\* C24: update_message_status(m, u, s) sets seen_at, to the current time, only
\* when the row goes from another status into 'seen'; for s 'sent' or
\* 'delivered' and for a row that is 'seen' already, seen_at stays as it was;
\* no row other than the one of (m, u) changes.
C24_SeenAtOnlyOnTransition ==
    [][\A m \in 1..MaxMessages, u \in Users, s \in Statuses :
          (pc' = pc /\ now' = now /\ UpdateMessageStatus(m, u, s))
          => /\ DOMAIN message_status' = DOMAIN message_status
             /\ \A k \in DOMAIN message_status :
                   IF k = <<m, u>>
                   THEN /\ message_status'[k].status = s
                        /\ message_status'[k].seen_at =
                              IF s = "seen" /\ message_status[k].status # "seen"
                              THEN now ELSE message_status[k].seen_at
                   ELSE message_status'[k] = message_status[k]]_vars
\* A send_message request is under way for chat c.
SendInFlight(c) ==
    \E p \in Procs :
        /\ pc[p] \in {"send_insert", "send_commit", "send_media", "send_refetch"}
        /\ req[p].chat = c

\* C25 as stated: whenever no send is in flight for a chat that has a message,
\* last_message_id is a message of the chat and one of its most recently
\* created, also after interleaved sends.
C25_PointerIsNewestMessage ==
    \A c \in DOMAIN chats :
        (MessagesOf(c) # {} /\ ~SendInFlight(c))
        => /\ chats[c].last_message_id \in MessagesOf(c)
           /\ chats[c].last_message_id \in LatestMessages(c)

\* C25 amended: the last_message_id of a chat that has a message is a message
\* of that chat; it changes only at the commit of a send, to that send's
\* message (the last commit wins), and that message is the chat's most recently
\* created one when no message inserted after it was committed before it.
C25_PointerIsLastCommitted ==
    /\ [](\A c \in DOMAIN chats :
            MessagesOf(c) # {} => chats[c].last_message_id \in MessagesOf(c))
    /\ [][\A p \in Procs :
            (pc[p] = "send_commit" /\ pc'[p] = "send_refetch")
            => chats'[req[p].chat].last_message_id = req[p].message_id]_vars
    /\ [][\A c \in DOMAIN chats :
            chats'[c].last_message_id # chats[c].last_message_id
            => \E p \in Procs :
                  /\ pc[p] = "send_commit" /\ pc'[p] # "send_commit"
                  /\ req[p].chat = c
                  /\ chats'[c].last_message_id = req[p].message_id
                  /\ (\A m \in MessagesOf(c) : m < req[p].message_id)
                     => \A m \in MessagesOf(c) :
                           messages[m].created_at <= messages'[req[p].message_id].created_at]_vars

\* Two sends to a chat have both finished and the chat's pointer is at the
\* older of their messages.
C25_Witness ==
    \E c \in DOMAIN chats :
        /\ ~SendInFlight(c)
        /\ chats[c].last_message_id \in MessagesOf(c)
        /\ \E n \in MessagesOf(c) :
              messages[n].created_at > messages[chats[c].last_message_id].created_at
\* C26: the message in a 201 response of send_message is the message the
\* request created: its id, its sender, its content.
C26_ResponseCarriesOwnMessage ==
    \A p \in Procs :
        (pc[p] = "done" /\ req[p].op = "send" /\ resp[p].code = 201)
        => /\ resp[p].data.id = req[p].message_id
           /\ resp[p].data.sender_id = req[p].user
           /\ resp[p].data.content = req[p].content
\* C27: a create-chat request for a group that is answered 201 has left the
\* chat with the requester and every requested id as participants; one that
\* is answered otherwise, an insert having failed, has left no chat row and no
\* participant row.
C27_GroupCreatedWhollyOrNotAtAll ==
    \A p \in Procs :
        (pc[p] = "done" /\ req[p].op = "group")
        => IF resp[p].code = 201
           THEN /\ req[p].chat \in DOMAIN chats
                /\ ({req[p].user} \cup req[p].participant_ids) \subseteq Participants(req[p].chat)
           ELSE /\ req[p].chat \notin DOMAIN chats
                /\ Participants(req[p].chat) = {}
\* C28: the sender of every message is a participant of the message's chat,
\* and every status row is that of a participant of the message's chat who is
\* not the sender of the message.
C28_SendersAndRecipientsAreParticipants ==
    /\ \A m \in DOMAIN messages :
          messages[m].sender_id \in Participants(messages[m].chat_id)
    /\ \A k \in DOMAIN message_status :
          /\ k[1] \in DOMAIN messages
          /\ k[2] \in Participants(messages[k[1]].chat_id)
          /\ k[2] # messages[k[1]].sender_id

\* A message with a status row is in a chat that has since got a participant
\* who is neither its sender nor has a status row of it.
C28_Witness ==
    \E m \in DOMAIN messages :
        /\ StatusUsers(m) # {}
        /\ \E u \in Participants(messages[m].chat_id) :
              u # messages[m].sender_id /\ u \notin StatusUsers(m)
\* C29: a mark-seen request is carried out only for a participant of the chat
\* and changes nothing but status rows of that user for messages of that chat:
\* the rows of other users, the user's rows for messages of other chats, and
\* all message, chat, participant and media rows stay as they are; a request
\* answered 404 changes nothing at all.
C29_MarkSeenTouchesOwnRowsOfChat ==
    [][\A p \in Procs :
          /\ (pc[p] = "idle" /\ req'[p].op = "mark_seen")
             => /\ req'[p].user \in Participants(req'[p].chat)
                /\ UNCHANGED <<chats, chat_participants, messages, message_media>>
                /\ DOMAIN message_status' = DOMAIN message_status
                /\ \A k \in DOMAIN message_status :
                      (k[2] # req'[p].user \/ messages[k[1]].chat_id # req'[p].chat)
                      => message_status'[k] = message_status[k]
          /\ (pc[p] = "idle" /\ pc'[p] = "done" /\ resp'[p].code = 404)
             => db' = db]_vars

\* A mark-seen request has turned the requester's row in its chat to 'seen'
\* while a row of the requester in another chat and a row of another user in
\* the same chat are still 'sent'.
C29_Witness ==
    \E p \in Procs, k \in DOMAIN message_status :
        /\ pc[p] = "done"
        /\ req[p].op = "mark_seen"
        /\ k[2] = req[p].user
        /\ messages[k[1]].chat_id = req[p].chat
        /\ message_status[k].status = "seen"
        /\ \E j \in DOMAIN message_status :
              /\ j[2] = req[p].user
              /\ messages[j[1]].chat_id # req[p].chat
              /\ message_status[j].status = "sent"
        /\ \E j \in DOMAIN message_status :
              /\ j[2] # req[p].user
              /\ messages[j[1]].chat_id = req[p].chat
              /\ message_status[j].status = "sent"

\* C30: whatever create_otp, mark_otp_as_used and invalidate_user_otps calls
\* the forgot-password and reset-password requests have made, two concurrent
\* forgot-password requests for one user included, every user has at most one
\* user_otps row with validity 'active' per OTP type, and no row with
\* is_used = 1 has validity 'active'.
ActiveOtps(user_id, otp_type) ==
    {i \in DOMAIN user_otps :
        /\ user_otps[i].user_id = user_id
        /\ user_otps[i].type = otp_type
        /\ user_otps[i].validity = "active"}

====
